---------------------------- MODULE Spec2Model ----------------------------
(***************************************************************************)
(* A model of the natural-language product search gateway (src/main.py):   *)
(* sanitize_sort_by, normalize_categories, extract_price_constraints, the  *)
(* JSON parsing and validation of call_mistral, the price reconciliation   *)
(* of nlp_search, and apply_filters.                                       *)
(*                                                                         *)
(* Python values are represented as follows.                               *)
(*   str            a sequence of one-character strings                    *)
(*   Optional[T]    None as << >>, a value x as << x >>                    *)
(*   float          a record [nan, v]: v an integer, nan the IEEE NaN      *)
(*   list           a sequence                                             *)
(***************************************************************************)
EXTENDS Integers, Sequences, FiniteSets, TLC

VARIABLES
    pc,         \* position of the request in nlp_search
    query,      \* req.query (Optional[str]); the raw text in the function specifications
    calls,      \* upstream calls issued so far, in order
    text,       \* the completion's response text, as JSON-level tokens
    parseOut,   \* outcome of call_mistral's parsing block
    modelOut,   \* the Filters call_mistral returned (Optional)
    extracted,  \* result of extract_price_constraints
    filters,    \* the Filters handed to apply_filters (Optional)
    products,   \* the fetched catalog
    results,    \* apply_filters' return value (Optional)
    response,   \* what the caller receives (Optional)
    cats,       \* argument of normalize_categories
    catsOut     \* its return value (Optional)

vars == <<pc, query, calls, text, parseOut, modelOut, extracted, filters,
          products, results, response, cats, catsOut>>

--------------------------------------------------------------------------
(* Bounds of the checked instances. *)

MaxCats == 2
MaxParts == 4
MaxTextLen == 5
MaxCatalog == 2
MaxSortCatalog == 3

--------------------------------------------------------------------------
(* Python values *)

None == << >>
Some(x) == << x >>
IsNone(o) == o = << >>
Val(o) == o[1]

SeqsUpTo(S, n) == UNION {[1..k -> S] : k \in 0..n}

SetMin(S) == CHOOSE x \in S : \A y \in S : x <= y
SetMax(S) == CHOOSE x \in S : \A y \in S : x >= y

RECURSIVE Flatten(_)
Flatten(ss) == IF ss = << >> THEN << >> ELSE Head(ss) \o Flatten(Tail(ss))

(* float: comparisons with NaN are all false *)
F(n) == [nan |-> FALSE, v |-> n]
NaN == [nan |-> TRUE, v |-> 0]
FEq(a, b) == ~a.nan /\ ~b.nan /\ a.v = b.v
FLe(a, b) == ~a.nan /\ ~b.nan /\ a.v <= b.v
FGe(a, b) == ~a.nan /\ ~b.nan /\ a.v >= b.v
FGt(a, b) == ~a.nan /\ ~b.nan /\ a.v > b.v

(* str *)
UpperCase == <<"A", "B", "C", "D", "E", "F", "G", "H", "I", "J", "K", "L", "M",
               "N", "O", "P", "Q", "R", "S", "T", "U", "V", "W", "X", "Y", "Z">>
LowerCase == <<"a", "b", "c", "d", "e", "f", "g", "h", "i", "j", "k", "l", "m",
               "n", "o", "p", "q", "r", "s", "t", "u", "v", "w", "x", "y", "z">>
Digits == <<"0", "1", "2", "3", "4", "5", "6", "7", "8", "9">>

(* the characters the model uses, in code point order *)
CodePoints == <<"\t", "\n", " ", "$", "'", ",", "-">> \o Digits
                  \o <<"<", "=", ">">> \o UpperCase \o <<"_">> \o LowerCase
Ord(c) == CHOOSE i \in DOMAIN CodePoints : CodePoints[i] = c

LowerChar(c) ==
    IF \E i \in DOMAIN UpperCase : UpperCase[i] = c
    THEN LowerCase[CHOOSE i \in DOMAIN UpperCase : UpperCase[i] = c]
    ELSE c
Lower(s) == [i \in 1..Len(s) |-> LowerChar(s[i])]

IsSpace(c) == c \in {" ", "\t", "\n"}
Strip(s) ==
    LET keep == {i \in 1..Len(s) : ~IsSpace(s[i])}
    IN IF keep = {} THEN << >> ELSE SubSeq(s, SetMin(keep), SetMax(keep))

(* Python's `needle in haystack` on str *)
Contains(h, n) ==
    \E i \in 1..(Len(h) - Len(n) + 1) : SubSeq(h, i, i + Len(n) - 1) = n

(* str.__lt__: lexicographic by code point *)
StrLess(a, b) ==
    \E i \in 1..Len(b) :
        /\ \A k \in 1..(i - 1) : k <= Len(a) /\ a[k] = b[k]
        /\ (i > Len(a) \/ (i <= Len(a) /\ Ord(a[i]) < Ord(b[i])))

(* sorted() of a set of str *)
RECURSIVE SortedStrs(_)
SortedStrs(S) ==
    IF S = {} THEN << >>
    ELSE LET m == CHOOSE x \in S : \A y \in S \ {x} : StrLess(x, y)
         IN <<m>> \o SortedStrs(S \ {m})

Range(s) == {s[i] : i \in DOMAIN s}

--------------------------------------------------------------------------
(* Vocabulary *)

RELEVANCE == <<"r", "e", "l", "e", "v", "a", "n", "c", "e">>
PRICE_ASC == <<"p", "r", "i", "c", "e", "_", "a", "s", "c">>
PRICE_DESC == <<"p", "r", "i", "c", "e", "_", "d", "e", "s", "c">>
RATING_DESC == <<"r", "a", "t", "i", "n", "g", "_", "d", "e", "s", "c">>
ALLOWED_SORT == {RELEVANCE, PRICE_ASC, PRICE_DESC, RATING_DESC}

ELECTRONICS == <<"e", "l", "e", "c", "t", "r", "o", "n", "i", "c", "s">>
JEWELERY == <<"j", "e", "w", "e", "l", "e", "r", "y">>
MENS_CLOTHING == <<"m", "e", "n", "'", "s", " ", "c", "l", "o", "t", "h", "i", "n", "g">>
WOMENS_CLOTHING == <<"w", "o", "m", "e", "n", "'", "s", " ", "c", "l", "o", "t", "h", "i", "n", "g">>
VALID_CATEGORIES == {MENS_CLOTHING, WOMENS_CLOTHING, JEWELERY, ELECTRONICS}

(* the synonym table, as the sequence of its (key, value) items *)
CATEGORY_SYNONYMS ==
    << << <<"m", "e", "n">>,                          Some(MENS_CLOTHING) >>,
       << <<"m", "e", "n", "'", "s">>,                Some(MENS_CLOTHING) >>,
       << <<"w", "o", "m", "e", "n">>,                Some(WOMENS_CLOTHING) >>,
       << <<"w", "o", "m", "e", "n", "'", "s">>,      Some(WOMENS_CLOTHING) >>,
       << <<"j", "e", "w", "e", "l", "r", "y">>,      Some(JEWELERY) >>,
       << <<"j", "e", "w", "e", "l", "s">>,           Some(JEWELERY) >>,
       << ELECTRONICS,                                Some(ELECTRONICS) >>,
       << <<"c", "l", "o", "t", "h", "e", "s">>,      None >>,
       << <<"s", "h", "o", "e", "s">>,                None >> >>

(* dict.get(key, default) on the table *)
SynonymGet(key, default) ==
    IF \E i \in DOMAIN CATEGORY_SYNONYMS : CATEGORY_SYNONYMS[i][1] = key
    THEN CATEGORY_SYNONYMS[CHOOSE i \in DOMAIN CATEGORY_SYNONYMS :
                               CATEGORY_SYNONYMS[i][1] = key][2]
    ELSE default

--------------------------------------------------------------------------
(* sanitize_sort_by: value is Optional[str] *)

SanitizeSortBy(value) ==
    IF IsNone(value) \/ Val(value) = << >> THEN RELEVANCE
    ELSE LET v == Strip(Lower(Val(value)))
         IN IF v \in ALLOWED_SORT THEN v
            ELSE IF \/ Contains(v, <<"g", "o", "o", "d", " ", "r", "e", "v", "i", "e", "w">>)
                    \/ Contains(v, <<"b", "e", "s", "t", " ", "r", "a", "t", "e", "d">>)
                    \/ Contains(v, <<"h", "i", "g", "h", " ", "r", "a", "t", "i", "n", "g">>)
                 THEN RATING_DESC
            ELSE IF Contains(v, <<"c", "h", "e", "a", "p">>) THEN PRICE_ASC
            ELSE IF Contains(v, <<"e", "x", "p", "e", "n", "s", "i", "v", "e">>) THEN PRICE_DESC
            ELSE RELEVANCE

--------------------------------------------------------------------------
(* normalize_categories *)

(* the value `mapped` takes for one element c of cats: Optional[str] *)
MappedIgnoresTable(c) ==
    LET lc == Strip(Lower(c)) IN IF lc = << >> THEN None ELSE Some(lc)

Mapped(c) ==
    LET lc == Strip(Lower(c))
    IN SynonymGet(lc, IF lc \in VALID_CATEGORIES THEN Some(lc) ELSE None)

NormalizeCategories(cs) ==
    LET out == {Val(Mapped(cs[i])) :
                   i \in {j \in DOMAIN cs : ~IsNone(Mapped(cs[j]))
                                             /\ Val(Mapped(cs[j])) # << >>}}
    IN SortedStrs(out)

--------------------------------------------------------------------------
(* extract_price_constraints.  The three regular expressions are matched   *)
(* character by character; re.search returns the leftmost match.  The      *)
(* optional fraction (?:\.\d+)? is left out: no modelled text holds a ".". *)

RemoveCommas(s) == SelectSeq(s, LAMBDA c : c # ",")

IsDigit(c) == \E i \in DOMAIN Digits : Digits[i] = c
DigitVal(c) == (CHOOSE i \in DOMAIN Digits : Digits[i] = c) - 1

(* float() of a string of digits *)
RECURSIVE ParseFloat(_)
ParseFloat(s) ==
    IF s = << >> THEN 0
    ELSE 10 * ParseFloat(SubSeq(s, 1, Len(s) - 1)) + DigitVal(s[Len(s)])

(* the literal lit at position i of s *)
StartsAt(s, i, lit) ==
    i + Len(lit) - 1 <= Len(s) /\ SubSeq(s, i, i + Len(lit) - 1) = lit

(* \s* from position i: the position after it *)
SkipSpaces(s, i) ==
    SetMin({j \in i..(Len(s) + 1) : j = Len(s) + 1 \/ ~IsSpace(s[j])})

(* \d+ from position i: the position after it, 0 when there is no digit *)
NumberEnd(s, i) ==
    IF i > Len(s) \/ ~IsDigit(s[i]) THEN 0
    ELSE SetMin({j \in (i + 1)..(Len(s) + 1) : j = Len(s) + 1 \/ ~IsDigit(s[j])})

(* \s*\$?\s*(\d+) from position i: whether it matches, and the group *)
Amount(s, i) ==
    LET a == SkipSpaces(s, i)
        b == IF a <= Len(s) /\ s[a] = "$" THEN a + 1 ELSE a
        c == SkipSpaces(s, b)
        e == NumberEnd(s, c)
    IN [ok |-> e # 0, lo |-> c, hi |-> e]

RANGE_WORDS == << <<"b", "e", "t", "w", "e", "e", "n">>, <<"f", "r", "o", "m">> >>
RANGE_SEPARATORS == << <<"a", "n", "d">>, <<"t", "o">>, <<"-">> >>
UPPER_WORDS ==
    << <<"u", "n", "d", "e", "r">>, <<"b", "e", "l", "o", "w">>,
       <<"l", "e", "s", "s", " ", "t", "h", "a", "n">>,
       <<"m", "a", "x", "i", "m", "u", "m">>, <<"m", "a", "x">>,
       <<"<", "=">>, <<"<">> >>
LOWER_WORDS ==
    << <<"o", "v", "e", "r">>, <<"a", "b", "o", "v", "e">>,
       <<"m", "o", "r", "e", " ", "t", "h", "a", "n">>,
       <<"m", "i", "n", "i", "m", "u", "m">>, <<"m", "i", "n">>,
       <<"a", "t", " ", "l", "e", "a", "s", "t">>, <<">", "=">>, <<">">> >>

(* the bound patterns at position i: group 1 of the first alternative of   *)
(* words that matches, or None                                             *)
BoundAt(s, i, words) ==
    LET hit == {n \in DOMAIN words :
                   StartsAt(s, i, words[n]) /\ Amount(s, i + Len(words[n])).ok}
    IN IF hit = {} THEN None
       ELSE LET a == Amount(s, i + Len(words[SetMin(hit)]))
            IN Some(SubSeq(s, a.lo, a.hi - 1))

(* the range pattern at position i: groups 1 and 2, or None.  The pattern  *)
(* starts with (?:between|from): a leading word is required.               *)
RangeAt(s, i) ==
    LET kws == {n \in DOMAIN RANGE_WORDS : StartsAt(s, i, RANGE_WORDS[n])} IN
    IF kws = {} THEN None
    ELSE LET a == Amount(s, i + Len(RANGE_WORDS[SetMin(kws)])) IN
         IF ~a.ok THEN None
         ELSE LET j == SkipSpaces(s, a.hi)
                  seps == {n \in DOMAIN RANGE_SEPARATORS :
                              StartsAt(s, j, RANGE_SEPARATORS[n])}
              IN IF seps = {} THEN None
                 ELSE LET b == Amount(s, j + Len(RANGE_SEPARATORS[SetMin(seps)]))
                      IN IF ~b.ok THEN None
                         ELSE Some(<<SubSeq(s, a.lo, a.hi - 1),
                                     SubSeq(s, b.lo, b.hi - 1)>>)

(* re.search with the range pattern, with a bound pattern *)
SearchRange(s) ==
    LET hits == {i \in 1..Len(s) : ~IsNone(RangeAt(s, i))}
    IN IF hits = {} THEN None ELSE RangeAt(s, SetMin(hits))

SearchBound(s, words) ==
    LET hits == {i \in 1..Len(s) : ~IsNone(BoundAt(s, i, words))}
    IN IF hits = {} THEN None ELSE BoundAt(s, SetMin(hits), words)

(* returns the pair <<pmin, pmax>> of Optional[float] *)
ExtractPriceConstraints(q) ==
    LET t == RemoveCommas(Lower(q))
        range == SearchRange(t)
        upper == SearchBound(t, UPPER_WORDS)
        lower == SearchBound(t, LOWER_WORDS)
    IN IF ~IsNone(range)
       THEN LET a == ParseFloat(Val(range)[1])
                b == ParseFloat(Val(range)[2])
            IN IF a <= b THEN <<Some(F(a)), Some(F(b))>>
                         ELSE <<Some(F(b)), Some(F(a))>>
       ELSE IF ~IsNone(upper) THEN <<None, Some(F(ParseFloat(Val(upper))))>>
       ELSE IF ~IsNone(lower) THEN <<Some(F(ParseFloat(Val(lower)))), None>>
       ELSE <<None, None>>

--------------------------------------------------------------------------
(* call_mistral, the parsing block.  The response text is a sequence of    *)
(* JSON-level tokens: "{" and "}", "k" (a member's key and colon, with the *)
(* comma before it when it is not the first), "v" (a scalar value) and "w" *)
(* (a word of prose, which no JSON text holds).                            *)

JsonTokens == {"{", "}", "k", "v", "w"}

(* json.loads succeeds on t, for kind "value" (a scalar or an object); the *)
(* other kinds are the parser's sub-goals                                  *)
RECURSIVE JsonParses(_, _)
JsonParses(kind, t) ==
    CASE kind = "value" ->
            t = <<"v">> \/ JsonParses("object", t)
      [] kind = "object" ->
            /\ Len(t) >= 2 /\ t[1] = "{" /\ t[Len(t)] = "}"
            /\ JsonParses("members", SubSeq(t, 2, Len(t) - 1))
      [] kind = "members" ->
            \/ t = << >>
            \/ /\ t[1] = "k"
               /\ \E j \in 2..Len(t) :
                      /\ JsonParses("value", SubSeq(t, 2, j))
                      /\ JsonParses("members", SubSeq(t, j + 1, Len(t)))

(* re.search(r"\{[\s\S]*\}", text).group(0): from the first "{" to the     *)
(* last "}" after it ([\s\S]* is greedy); None when there is no match      *)
BraceSearch(t) ==
    LET opens == {i \in DOMAIN t : t[i] = "{"} IN
    IF opens = {} THEN None
    ELSE LET i == SetMin(opens)
             closes == {j \in DOMAIN t : j > i /\ t[j] = "}"}
         IN IF closes = {} THEN None ELSE Some(SubSeq(t, i, SetMax(closes)))

(* lines 205-217: what `parsed` is parsed from, or the exception raised.   *)
(*   dict             parsed is an object, read from src                   *)
(*   HTTPException    status 500, "Model returned non-JSON."               *)
(*   JSONDecodeError  raised by the second json.loads, not caught          *)
(*   AttributeError   parsed is not a dict: parsed.get fails, not caught   *)
ParseModelOutput(t) ==
    IF JsonParses("value", t)
    THEN IF JsonParses("object", t) THEN [kind |-> "dict", src |-> t]
         ELSE [kind |-> "AttributeError", src |-> << >>]
    ELSE LET m == BraceSearch(t) IN
         IF IsNone(m) THEN [kind |-> "HTTPException", src |-> << >>]
         ELSE IF ~JsonParses("value", Val(m))
              THEN [kind |-> "JSONDecodeError", src |-> << >>]
              ELSE [kind |-> "dict", src |-> Val(m)]

--------------------------------------------------------------------------
(* Specification of the parsing block alone: every text of at most         *)
(* MaxTextLen tokens, then one pass.                                       *)

InitParse ==
    /\ text \in SeqsUpTo(JsonTokens, MaxTextLen)
    /\ parseOut = None
    /\ pc = "start"
    /\ query = None /\ calls = << >> /\ modelOut = None /\ extracted = None
    /\ filters = None /\ products = << >> /\ results = None /\ response = None
    /\ cats = << >> /\ catsOut = None

Parse ==
    /\ pc = "start"
    /\ parseOut' = Some(ParseModelOutput(text))
    /\ pc' = "returned"
    /\ UNCHANGED <<query, calls, text, modelOut, extracted, filters,
                   products, results, response, cats, catsOut>>

SpecParse == InitParse /\ [][Parse]_vars

(* the first top-level balanced-brace substring of t: from the first "{"   *)
(* to the "}" that closes it                                               *)
C5_Depth(t, i, j) ==
    Cardinality({n \in i..j : t[n] = "{"}) - Cardinality({n \in i..j : t[n] = "}"})

C5_FirstBalanced(t) ==
    LET opens == {i \in DOMAIN t : t[i] = "{"} IN
    IF opens = {} THEN None
    ELSE LET i == SetMin(opens)
             ends == {j \in DOMAIN t : j > i /\ C5_Depth(t, i, j) = 0}
         IN IF ends = {} THEN None ELSE Some(SubSeq(t, i, SetMin(ends)))

(* C5: when the text is not JSON, the first top-level balanced-brace       *)
(* substring is parsed instead, and when neither the text nor that         *)
(* substring is a JSON object the failure is the parse-error signal        *)
(* ("Model returned non-JSON."), never another exception.                  *)
C5_FallbackOrParseError ==
    pc = "returned" =>
        LET out == Val(parseOut)
            first == C5_FirstBalanced(text)
        IN ~JsonParses("value", text) =>
               IF ~IsNone(first) /\ JsonParses("object", Val(first))
               THEN out = [kind |-> "dict", src |-> Val(first)]
               ELSE out.kind = "HTTPException"

(* what the code does: JSON that is an object is read whole; text that is  *)
(* not JSON and has no "{" with a "}" after it gives the parse-error       *)
(* signal; otherwise the span from the first "{" to the last "}" is read,  *)
(* and when that span is not JSON the decoder's own exception escapes.     *)
C5_GreedySpan ==
    pc = "returned" =>
        LET out == Val(parseOut) IN
        /\ JsonParses("object", text) => out = [kind |-> "dict", src |-> text]
        /\ (~JsonParses("value", text) /\ IsNone(BraceSearch(text)))
               => out.kind = "HTTPException"
        /\ out.kind = "dict" => JsonParses("object", out.src)
        /\ out.kind = "JSONDecodeError" =>
               \E i, j \in DOMAIN text : i < j /\ text[i] = "{" /\ text[j] = "}"

--------------------------------------------------------------------------
(* apply_filters.  A Product is a record [id, title, price, description,   *)
(* category, rating]: price a float, rating an Optional dict of which only *)
(* the key "rate" is read ([hasRate, rate]).  A Filters is a record        *)
(* [categories, keywords, price_min, price_max, rating_min, sort_by].      *)

(* (p.rating or {}).get("rate", 0) *)
Rate(p) ==
    IF IsNone(p.rating) \/ ~Val(p.rating).hasRate THEN F(0) ELSE Val(p.rating).rate

(* f"{p.title} {p.description} {p.category}".lower() *)
Haystack(p) == Lower(p.title \o <<" ">> \o p.description \o <<" ">> \o p.category)

(* list.sort(key=...): a stable sort.  keys[i] is the key of ps[i];       *)
(* SortedIndices inserts each index after the indices whose key is not     *)
(* greater.                                                                *)
RECURSIVE SortedIndices(_)
SortedIndices(keys) ==
    IF keys = << >> THEN << >>
    ELSE LET n == Len(keys)
             rest == SortedIndices(SubSeq(keys, 1, n - 1))
             before == {i \in DOMAIN rest : keys[rest[i]] <= keys[n]}
             at == IF before = {} THEN 0 ELSE SetMax(before)
         IN SubSeq(rest, 1, at) \o <<n>> \o SubSeq(rest, at + 1, Len(rest))

StableSort(ps, keys) ==
    LET idx == SortedIndices(keys) IN [r \in 1..Len(ps) |-> ps[idx[r]]]

(* the predicates, each skipped when its field is None or empty *)
PriceMinOk(p, f) == IsNone(f.price_min) \/ FGe(p.price, Val(f.price_min))

PriceMaxOk(p, f) == IsNone(f.price_max) \/ FLe(p.price, Val(f.price_max))

RatingOk(p, f) == IsNone(f.rating_min) \/ FGe(Rate(p), Val(f.rating_min))

CategoryOk(p, f) ==
    f.categories = << >> \/ Lower(p.category) \in {Lower(c) : c \in Range(f.categories)}

KeywordsOk(p, f) ==
    f.keywords = << >> \/ \A k \in Range(f.keywords) : Contains(Haystack(p), Lower(k))

(* the order apply_filters gives the filtered list out *)
SortByIgnored(out, f) == out

SortBy(out, f) ==
    IF f.sort_by = PRICE_ASC
    THEN StableSort(out, [i \in DOMAIN out |-> out[i].price.v])
    ELSE IF f.sort_by = PRICE_DESC
    THEN StableSort(out, [i \in DOMAIN out |-> 0 - out[i].price.v])
    ELSE IF f.sort_by = RATING_DESC
    THEN StableSort(out, [i \in DOMAIN out |-> 0 - Rate(out[i]).v])
    ELSE out

(* the filtering of lines 95-117 *)
KeepDropsPriceMax(ps, f) ==
    SelectSeq(ps, LAMBDA p : PriceMinOk(p, f) /\ RatingOk(p, f)
                             /\ CategoryOk(p, f) /\ KeywordsOk(p, f))

Keep(ps, f) ==
    LET a == SelectSeq(ps, LAMBDA p : PriceMinOk(p, f))
        b == SelectSeq(a, LAMBDA p : PriceMaxOk(p, f))
        c == SelectSeq(b, LAMBDA p : RatingOk(p, f))
        d == SelectSeq(c, LAMBDA p : CategoryOk(p, f))
    IN SelectSeq(d, LAMBDA p : KeywordsOk(p, f))

(* the return value, and the caller's list after the call: out is a copy   *)
(* (products[:]), so the sort in place never reaches the caller's list     *)
ApplyFilters(ps, f) == [ret |-> SortBy(Keep(ps, f), f), products |-> ps]

--------------------------------------------------------------------------
(* call_mistral, validation and normalization.  The parsed object is a     *)
(* record of raw JSON values: sort_by an Optional[str] (None for null or a *)
(* missing key); each of price_min, price_max, rating_min a record         *)
(* [type, num] with type "null", "number" or "string" (a string no float   *)
(* can be read from).                                                      *)

Null == [type |-> "null", num |-> F(0)]
Number(x) == [type |-> "number", num |-> x]
BadString == [type |-> "string", num |-> F(0)]

(* the Optional[float] fields of Filters: the validated value *)
OptionalFloat(raw) == IF raw.type = "number" THEN Some(raw.num) ELSE None

(* the construction of Filters from parsed raises ValidationError *)
FiltersRejects(d) ==
    \E raw \in {d.price_min, d.price_max, d.rating_min} : raw.type = "string"

(* lines 217-220 on the parsed object d: the Filters returned *)
BuildFilters(d) ==
    [categories |-> NormalizeCategories(d.categories),
     keywords |-> d.keywords,
     price_min |-> OptionalFloat(d.price_min),
     price_max |-> OptionalFloat(d.price_max),
     rating_min |-> OptionalFloat(d.rating_min),
     sort_by |-> SanitizeSortBy(d.sort_by)]

(* the object {} *)
EmptyObject ==
    [categories |-> << >>, keywords |-> << >>, price_min |-> Null,
     price_max |-> Null, rating_min |-> Null, sort_by |-> None]

(* call_mistral from the response on: the exception raised (None when it   *)
(* returns) and the Filters returned (None when it raises).  d is the      *)
(* content of the object the text holds.                                   *)
CallMistral(status, t, d) ==
    IF status # 200
    THEN [raised |-> Some([type |-> "HTTPException", status |-> 502]), ret |-> None]
    ELSE LET parsed == ParseModelOutput(t) IN
         IF parsed.kind = "HTTPException"
         THEN [raised |-> Some([type |-> "HTTPException", status |-> 500]), ret |-> None]
         ELSE IF parsed.kind # "dict"
         THEN [raised |-> Some([type |-> parsed.kind, status |-> 500]), ret |-> None]
         ELSE LET obj == IF parsed.src = <<"{", "}">> THEN EmptyObject ELSE d IN
              IF FiltersRejects(obj)
              THEN [raised |-> Some([type |-> "ValidationError", status |-> 500]),
                    ret |-> None]
              ELSE [raised |-> None, ret |-> Some(BuildFilters(obj))]

--------------------------------------------------------------------------
(* nlp_search *)

(* q = (req.query or "").strip() *)
CleanQueryUntrimmed(q) == IF IsNone(q) THEN << >> ELSE Val(q)

CleanQuery(q) == IF IsNone(q) THEN << >> ELSE Strip(Val(q))

(* lines 255-268: the hardening of the price bounds of f by the pair e     *)
(* that extract_price_constraints returned                                 *)
Harden(f, e) ==
    LET pmin == e[1]
        pmax == e[2]
        f1 == IF IsNone(pmin) THEN f
              ELSE [f EXCEPT !.price_min = pmin,
                             !.price_max =
                                 IF ~IsNone(f.price_max) /\ FEq(Val(f.price_max), Val(pmin))
                                 THEN None ELSE f.price_max]
        f2 == IF IsNone(pmax) THEN f1
              ELSE [f1 EXCEPT !.price_max = pmax,
                              !.price_min =
                                  IF ~IsNone(f1.price_min) /\ FEq(Val(f1.price_min), Val(pmax))
                                  THEN None ELSE f1.price_min]
    IN IF /\ ~IsNone(f2.price_min) /\ ~IsNone(f2.price_max)
          /\ FGt(Val(f2.price_min), Val(f2.price_max))
       THEN [f2 EXCEPT !.price_min = f2.price_max, !.price_max = f2.price_min]
       ELSE f2

Reconcile(f, q) == Harden(f, ExtractPriceConstraints(q))

(* the upstream calls issued once call_mistral has raised or returned *)
CallsAfterCompletionAlways(cs, r) == Append(cs, "catalog")

CallsAfterCompletion(cs, r) ==
    IF IsNone(r.raised) THEN Append(cs, "catalog") ELSE cs

(* the response FastAPI sends for an exception: an HTTPException's own     *)
(* status, 500 for any other                                               *)
ErrorResponse(exc) == [status |-> exc.status, error |-> exc.type, count |-> 0]

--------------------------------------------------------------------------
(* Specification of extract_price_constraints alone: every text made of at *)
(* most MaxParts of the parts below, then one call.                        *)

P_between == <<"b", "e", "t", "w", "e", "e", "n", " ">>
P_from == <<"F", "r", "o", "m", " ">>
P_and == <<" ", "a", "n", "d", " ">>
P_to == <<" ", "t", "o", " ">>
P_dash == <<"-">>
P_under == <<"u", "n", "d", "e", "r", " ">>
P_over == <<"O", "v", "e", "r", " ">>
P_20 == <<"$", "2", "0">>
P_50 == <<"$", "5", "0">>
P_9 == <<"9", ",">>
P_shoes == <<"s", "h", "o", "e", "s", " ">>

AmountParts == {P_20, P_50, P_9}
QueryParts == {P_between, P_from, P_and, P_to, P_dash, P_under, P_over, P_shoes}
                  \cup AmountParts

(* the number an amount part writes *)
AmountOf(p) == IF p = P_20 THEN 20 ELSE IF p = P_50 THEN 50 ELSE 9

(* a complete upper-bound or lower-bound phrase, to lead a text *)
LeadUpper == P_under \o P_20 \o <<" ">>
LeadLower == P_over \o P_50 \o <<" ">>

InitExtract ==
    /\ query \in {Some(lead \o Flatten(ps)) :
                     lead \in {<< >>, LeadUpper, LeadLower},
                     ps \in SeqsUpTo(QueryParts, MaxParts)}
    /\ extracted = None
    /\ pc = "start"
    /\ calls = << >> /\ text = << >> /\ parseOut = None
    /\ modelOut = None /\ filters = None
    /\ products = << >> /\ results = None /\ response = None
    /\ cats = << >> /\ catsOut = None

Extract ==
    /\ pc = "start"
    /\ extracted' = Some(ExtractPriceConstraints(Val(query)))
    /\ pc' = "returned"
    /\ UNCHANGED <<query, calls, text, parseOut, modelOut, filters,
                   products, results, response, cats, catsOut>>

SpecExtract == InitExtract /\ [][Extract]_vars

C4_Ordered(a, b) ==
    IF AmountOf(a) <= AmountOf(b)
    THEN <<Some(F(AmountOf(a))), Some(F(AmountOf(b)))>>
    ELSE <<Some(F(AmountOf(b))), Some(F(AmountOf(a)))>>

(* the three range phrasings of amounts a and b *)
C4_BetweenAnd(a, b) == P_between \o a \o P_and \o b
C4_FromTo(a, b) == P_from \o a \o P_to \o b
C4_Bare(a, b) == a \o P_dash \o b

(* C4 for the two keyword phrasings: "between $A and $B" and "from $A to   *)
(* $B" return (min(A,B), max(A,B)), also after an upper-bound or a         *)
(* lower-bound phrase (range > upper > lower); "under $A" returns          *)
(* (absent, A), also after a lower-bound phrase (upper > lower); "over $A" *)
(* returns (A, absent); text without a price phrase returns (absent,       *)
(* absent).                                                                *)
C4_KeywordRanges ==
    pc = "returned" =>
        \A a, b \in AmountParts :
            LET q == Val(query)
                r == Val(extracted)
            IN /\ q \in {C4_BetweenAnd(a, b), C4_FromTo(a, b),
                         LeadUpper \o C4_BetweenAnd(a, b),
                         LeadLower \o C4_FromTo(a, b),
                         P_shoes \o C4_FromTo(a, b) \o P_under \o b}
                     => r = C4_Ordered(a, b)
               /\ q \in {P_under \o a, P_shoes \o P_under \o a,
                         LeadLower \o P_under \o a, P_under \o a \o P_over \o b}
                     => r = <<None, Some(F(AmountOf(a)))>>
               /\ q \in {P_over \o a, P_over \o a \o P_shoes}
                     => r = <<Some(F(AmountOf(a))), None>>
               /\ q \in {P_shoes, << >>, a, P_between \o a, a \o P_and \o b}
                     => r = <<None, None>>

(* texts of each kind, and of both orders of a range, are extracted from *)
C4_Witness ==
    /\ pc = "returned"
    /\ Val(query) = LeadUpper \o C4_BetweenAnd(P_50, P_20)
    /\ Val(extracted) = <<Some(F(20)), Some(F(50))>>

(* C4: as C4_KeywordRanges, and the bare phrasing "$A-$B", with no leading *)
(* keyword, returns (min(A,B), max(A,B)) too: "$50-$20" returns (20, 50).  *)
C4_ThreeRangePhrasings ==
    /\ C4_KeywordRanges
    /\ pc = "returned" =>
           \A a, b \in AmountParts :
               Val(query) = C4_Bare(a, b) => Val(extracted) = C4_Ordered(a, b)

--------------------------------------------------------------------------
(* Specifications of apply_filters alone: a catalog and a Filters, then    *)
(* one call.  Product ids are the catalog positions.                       *)

NoRating == None
RatingWithoutRate == Some([hasRate |-> FALSE, rate |-> F(0)])
Rated(n) == Some([hasRate |-> TRUE, rate |-> F(n)])

Catalogs(Kinds, k) ==
    {[i \in 1..k |-> [id |-> i, title |-> c[i].title, price |-> c[i].price,
                      description |-> c[i].description,
                      category |-> c[i].category, rating |-> c[i].rating]] :
         c \in [1..k -> Kinds]}

InitEngine(Kinds, n, Fs) ==
    /\ products \in UNION {Catalogs(Kinds, k) : k \in 0..n}
    /\ filters \in {Some(f) : f \in Fs}
    /\ results = None
    /\ pc = "start"
    /\ query = None /\ calls = << >> /\ text = << >> /\ parseOut = None
    /\ modelOut = None /\ extracted = None /\ response = None
    /\ cats = << >> /\ catsOut = None

Apply ==
    /\ pc = "start"
    /\ LET r == ApplyFilters(products, Val(filters))
       IN results' = Some(r.ret) /\ products' = r.products
    /\ pc' = "returned"
    /\ UNCHANGED <<query, calls, text, parseOut, modelOut, extracted, filters,
                   response, cats, catsOut>>

(* filtering: products that differ in every field a predicate reads *)
FilterKinds ==
    [title : {<<"R", "e", "d", " ", "H", "a", "t">>},
     price : {F(1), F(2)},
     description : {<<"w", "o", "o", "l">>},
     category : {ELECTRONICS, <<"J", "e", "w", "e", "l", "e", "r", "y">>},
     rating : {NoRating, RatingWithoutRate, Rated(2)}]

FilterFilters ==
    [categories : {<< >>, << <<"J", "E", "W", "E", "L", "E", "R", "Y">>, MENS_CLOTHING >>},
     keywords : {<< >>, << <<"H", "A", "T">> >>,
                 << <<"d", " ", "h">>, <<"l", " ", "e", "l", "e", "c">> >>},
     price_min : {None, Some(F(2)), Some(NaN)},
     price_max : {None, Some(F(1))},
     rating_min : {None, Some(F(1))},
     sort_by : {RELEVANCE, RATING_DESC}]

InitFilter == InitEngine(FilterKinds, MaxCatalog, FilterFilters)

SpecFilter == InitFilter /\ [][Apply]_vars

(* sorting: products that tie and differ on both sort keys *)
SortKinds ==
    [title : {<<"H", "a", "t">>},
     price : {F(1), F(2)},
     description : {<< >>},
     category : {ELECTRONICS},
     rating : {NoRating, RatingWithoutRate, Rated(0), Rated(2)}]

SortFilters ==
    [categories : {<< >>},
     keywords : {<< >>},
     price_min : {None},
     price_max : {None, Some(F(1))},
     rating_min : {None, Some(F(2))},
     sort_by : ALLOWED_SORT]

InitSort == InitEngine(SortKinds, MaxSortCatalog, SortFilters)

SpecSort == InitSort /\ [][Apply]_vars

(* the conjunction of the active predicates, as the claim words it *)
C8_Satisfies(p, f) ==
    /\ ~IsNone(f.price_min) => FGe(p.price, Val(f.price_min))
    /\ ~IsNone(f.price_max) => FLe(p.price, Val(f.price_max))
    /\ ~IsNone(f.rating_min) =>
           FGe(IF ~IsNone(p.rating) /\ Val(p.rating).hasRate
               THEN Val(p.rating).rate ELSE F(0),
               Val(f.rating_min))
    /\ Len(f.categories) > 0 =>
           \E i \in DOMAIN f.categories : Lower(f.categories[i]) = Lower(p.category)
    /\ Len(f.keywords) > 0 =>
           \A i \in DOMAIN f.keywords :
               Contains(Lower(p.title \o <<" ">> \o p.description \o <<" ">> \o p.category),
                        Lower(f.keywords[i]))

(* the returned list against the catalog *)
C8_Returned ==
    pc = "returned" =>
        LET out == Val(results)
            f == Val(filters)
        IN /\ \A i \in DOMAIN products :
                  C8_Satisfies(products[i], f)
                      <=> Cardinality({j \in DOMAIN out : out[j] = products[i]}) = 1
           /\ \A j \in DOMAIN out : \E i \in DOMAIN products : out[j] = products[i]
           /\ Len(out) = Cardinality({i \in DOMAIN products : C8_Satisfies(products[i], f)})

(* C8: apply_filters returns exactly the products of the catalog that      *)
(* satisfy every active predicate, each once (price >= price_min,          *)
(* price <= price_max, rating or 0 >= rating_min, category in categories   *)
(* and every keyword in title+description+category, the last two without   *)
(* regard to case; an absent or empty field excludes nothing), and it      *)
(* leaves the catalog it was given as it was.                              *)
C8_ExactlyTheMatching == [](C8_Returned) /\ [][products' = products]_vars

(* a call with every predicate active that keeps one of two products *)
C8_Witness ==
    /\ pc = "returned"
    /\ Len(products) = 2
    /\ Len(Val(results)) = 1
    /\ Val(filters).categories # << >>
    /\ Val(filters).keywords # << >>
    /\ ~IsNone(Val(filters).price_max)
    /\ ~IsNone(Val(filters).rating_min)
    /\ IsNone(Val(results)[1].rating) = FALSE

(* the sort key of a product under sort_by, smaller first *)
C9_Key(p, sort_by) ==
    IF sort_by = PRICE_ASC THEN p.price.v
    ELSE IF sort_by = PRICE_DESC THEN 0 - p.price.v
    ELSE IF sort_by = RATING_DESC
    THEN 0 - (IF ~IsNone(p.rating) /\ Val(p.rating).hasRate THEN Val(p.rating).rate.v ELSE 0)
    ELSE 0

(* C9: the returned sequence is ordered by the sort key (price_asc: prices *)
(* non-decreasing; price_desc: non-increasing; rating_desc: ratings, a     *)
(* missing one counted as 0, non-increasing), and products that tie on the *)
(* key, which under relevance is all of them, keep their catalog order.    *)
C9_StablyOrdered ==
    pc = "returned" =>
        LET out == Val(results)
            f == Val(filters)
        IN \A i, j \in DOMAIN out :
               i < j =>
                   /\ C9_Key(out[i], f.sort_by) <= C9_Key(out[j], f.sort_by)
                   /\ C9_Key(out[i], f.sort_by) = C9_Key(out[j], f.sort_by)
                          => out[i].id < out[j].id

(* a call that reorders, with a tie between a missing rating and a rate of 0 *)
C9_Witness ==
    /\ pc = "returned"
    /\ Val(filters).sort_by = RATING_DESC
    /\ Len(Val(results)) = 3
    /\ Val(results)[1].id = 3
    /\ Val(results)[2].id = 1 /\ IsNone(Val(results)[2].rating)
    /\ Val(results)[3].id = 2 /\ Val(results)[3].rating = Rated(0)

--------------------------------------------------------------------------
(* Specification of normalize_categories alone: every list of at most     *)
(* MaxCats category strings, then one call.                                *)

CategoryInputs ==
    { <<"m", "e", "n">>, <<"M", "e", "n">>, <<" ", "m", "e", "n", "'", "s", " ">>,
      <<"W", "O", "M", "E", "N">>, <<"w", "o", "m", "e", "n", "'", "s">>,
      <<"J", "e", "w", "e", "l", "r", "y">>, <<"j", "e", "w", "e", "l", "s", "\t">>,
      <<"s", "h", "o", "e", "s">>, <<"C", "l", "o", "t", "h", "e", "s">>,
      ELECTRONICS, JEWELERY, MENS_CLOTHING,
      <<"W", "o", "m", "e", "n", "'", "s", " ", "C", "l", "o", "t", "h", "i", "n", "g">>,
      <<"t", "o", "y", "s">>, <<"m", "e", "n", "s">>, << >>, <<" ">> }

InitNormalize ==
    /\ cats \in SeqsUpTo(CategoryInputs, MaxCats)
    /\ catsOut = None
    /\ pc = "start"
    /\ query = None /\ calls = << >> /\ text = << >> /\ parseOut = None
    /\ modelOut = None /\ extracted = None /\ filters = None
    /\ products = << >> /\ results = None /\ response = None

Normalize ==
    /\ pc = "start"
    /\ catsOut' = Some(NormalizeCategories(cats))
    /\ pc' = "returned"
    /\ UNCHANGED <<query, calls, text, parseOut, modelOut, extracted, filters,
                   products, results, response, cats>>

SpecNormalize == InitNormalize /\ [][Normalize]_vars

(* what a lowercased, trimmed string names, read off the tables: itself   *)
(* when it is a catalog category, or the category its synonym entry gives  *)
C10_Names(lc, c) ==
    \/ lc = c
    \/ \E k \in DOMAIN CATEGORY_SYNONYMS :
           CATEGORY_SYNONYMS[k][1] = lc /\ CATEGORY_SYNONYMS[k][2] = Some(c)

(* C10: for every list of category strings normalize_categories returns a  *)
(* strictly increasing (sorted, duplicate-free) sequence of valid catalog  *)
(* categories: exactly the categories some input string names; strings     *)
(* that name none (unrecognised, or synonyms mapped to no category) are    *)
(* dropped.                                                                *)
C10_NormalizedSortedValid ==
    pc = "returned" =>
        LET out == Val(catsOut)
        IN /\ \A i \in DOMAIN out : out[i] \in VALID_CATEGORIES
           /\ \A i, j \in DOMAIN out : i < j => StrLess(out[i], out[j])
           /\ Range(out) = {c \in VALID_CATEGORIES :
                               \E i \in DOMAIN cats :
                                   C10_Names(Strip(Lower(cats[i])), c)}

(* a call with a synonym, an unmapped synonym and an unrecognised string   *)
C10_Witness ==
    /\ pc = "returned"
    /\ Len(cats) = 2
    /\ Lower(cats[1]) = <<"s", "h", "o", "e", "s">>
    /\ Strip(Lower(cats[2])) = <<"m", "e", "n", "'", "s">>
    /\ Val(catsOut) = <<MENS_CLOTHING>>

--------------------------------------------------------------------------
(* Specification of a request to /nlp-search.  The handler runs to its     *)
(* first await (the completion call), from the completion's response to    *)
(* its second (the catalog fetch), and from the catalog's response to its  *)
(* return; an exception ends it with an error response.                    *)

RequestQueries ==
    { None, Some(<< >>), Some(<<" ", "\t">>),
      Some(<<" ", "r", "e", "d", " ", "h", "a", "t", " ">>),
      Some(P_under \o P_50), Some(P_over \o P_50), Some(P_over \o P_20 \o <<" ">>),
      Some(P_between \o P_50 \o P_and \o P_20),
      Some(P_from \o P_20 \o P_to \o P_20) }

ResponseTexts ==
    { <<"{", "}">>, <<"{", "k", "v", "}">>, <<"w", "{", "k", "v", "}", "w">>,
      <<"w">>, <<"v">>, <<"{", "w", "}">>, <<"{", "}", "w", "{", "}">> }

ParsedObjects ==
    [categories : {<< >>, << <<"J", "e", "w", "e", "l", "s">>, <<"s", "h", "o", "e", "s">> >>},
     keywords : {<< <<"h", "a", "t">> >>},
     price_min : {Null, Number(F(20)), Number(F(50)), Number(NaN)},
     price_max : {Null, Number(F(20)), Number(F(50)), Number(NaN)},
     rating_min : {Null, Number(F(4)), BadString},
     sort_by : {None, Some(<< >>), Some(<<" ", "P", "r", "i", "c", "e", "_", "A", "s", "c">>),
                Some(<<"m", "o", "s", "t", " ", "e", "x", "p", "e", "n", "s", "i", "v", "e">>),
                Some(<<"n", "e", "w", "e", "s", "t">>)}]

ResponseCatalogs ==
    { << >>,
      << [id |-> 1, title |-> <<"R", "e", "d", " ", "H", "a", "t">>, price |-> F(60),
          description |-> << >>, category |-> JEWELERY, rating |-> Rated(4)],
         [id |-> 2, title |-> <<"h", "a", "t">>, price |-> F(20),
          description |-> << >>, category |-> JEWELERY, rating |-> NoRating] >> }

Init ==
    /\ pc = "received"
    /\ query \in RequestQueries
    /\ calls = << >>
    /\ text = << >> /\ parseOut = None /\ modelOut = None /\ extracted = None
    /\ filters = None /\ products = << >> /\ results = None /\ response = None
    /\ cats = << >> /\ catsOut = None

(* lines 248-252, to the POST of call_mistral *)
Receive ==
    /\ pc = "received"
    /\ \/ /\ CleanQuery(query) = << >>
          /\ response' = Some([status |-> 400, error |-> "HTTPException", count |-> 0])
          /\ pc' = "done"
          /\ calls' = calls
       \/ /\ CleanQuery(query) # << >>
          /\ calls' = Append(calls, "completion")
          /\ pc' = "await_completion"
          /\ response' = response
    /\ UNCHANGED <<query, text, parseOut, modelOut, extracted, filters,
                   products, results, cats, catsOut>>

(* the POST raises (a timeout, a refused connection): nothing catches it *)
CompletionUnreachable ==
    /\ pc = "await_completion"
    /\ response' = Some([status |-> 500, error |-> "httpx.TransportError", count |-> 0])
    /\ pc' = "done"
    /\ UNCHANGED <<query, calls, text, parseOut, modelOut, extracted, filters,
                   products, results, cats, catsOut>>

(* lines 199-220 and 255-270: the completion answers with a status and a   *)
(* text; call_mistral raises, or returns the Filters that nlp_search       *)
(* hardens before it fetches the catalog                                   *)
CompletionAnswers ==
    /\ pc = "await_completion"
    /\ \E status \in {200, 503}, t \in ResponseTexts, d \in ParsedObjects :
           LET r == CallMistral(status, t, d)
               q == CleanQuery(query)
           IN /\ text' = (IF status = 200 THEN t ELSE << >>)
              /\ parseOut' = (IF status = 200 THEN Some(ParseModelOutput(t)) ELSE None)
              /\ calls' = CallsAfterCompletion(calls, r)
              /\ \/ /\ ~IsNone(r.raised)
                    /\ response' = Some(ErrorResponse(Val(r.raised)))
                    /\ pc' = "done"
                    /\ UNCHANGED <<modelOut, extracted, filters>>
                 \/ /\ IsNone(r.raised)
                    /\ modelOut' = r.ret
                    /\ extracted' = Some(ExtractPriceConstraints(q))
                    /\ filters' = Some(Reconcile(Val(r.ret), q))
                    /\ pc' = "await_catalog"
                    /\ response' = response
    /\ UNCHANGED <<query, products, results, cats, catsOut>>

(* the GET raises, or raise_for_status does: nothing catches it *)
CatalogFails ==
    /\ pc = "await_catalog"
    /\ \E e \in {"httpx.TransportError", "httpx.HTTPStatusError"} :
           response' = Some([status |-> 500, error |-> e, count |-> 0])
    /\ pc' = "done"
    /\ UNCHANGED <<query, calls, text, parseOut, modelOut, extracted, filters,
                   products, results, cats, catsOut>>

(* lines 270-272: the catalog arrives; filter, sort, respond *)
CatalogAnswers ==
    /\ pc = "await_catalog"
    /\ \E catalog \in ResponseCatalogs :
           LET r == ApplyFilters(catalog, Val(filters))
           IN /\ products' = r.products
              /\ results' = Some(r.ret)
              /\ response' = Some([status |-> 200, error |-> "", count |-> Len(r.ret)])
    /\ pc' = "done"
    /\ UNCHANGED <<query, calls, text, parseOut, modelOut, extracted, filters,
                   cats, catsOut>>

Next ==
    \/ Receive
    \/ CompletionUnreachable
    \/ CompletionAnswers
    \/ CatalogFails
    \/ CatalogAnswers

Spec == Init /\ [][Next]_vars

--------------------------------------------------------------------------
(* Claims about a request *)

(* C1: reconciling the reconciled Filters against the same text once more  *)
(* gives the same Filters.                                                 *)
C1_ReconcileIdempotent ==
    ~IsNone(filters) =>
        Reconcile(Val(filters), CleanQuery(query)) = Val(filters)

(* C1, what the code keeps: a Filters that already carries every bound the *)
(* text gives is left as it is by the reconciliation.                      *)
C1_FixedWhenBoundsAgree ==
    ~IsNone(filters) =>
        LET f == Val(filters)
            e == Val(extracted)
        IN ((~IsNone(e[1]) => f.price_min = e[1]) /\ (~IsNone(e[2]) => f.price_max = e[2]))
               => Reconcile(f, CleanQuery(query)) = f

(* C2: the Filters handed to apply_filters has one of the four sort keys,  *)
(* and price_min <= price_max when both are set.                           *)
C2_FiltersValid ==
    ~IsNone(filters) =>
        LET f == Val(filters)
        IN /\ f.sort_by \in {RELEVANCE, PRICE_ASC, PRICE_DESC, RATING_DESC}
           /\ (~IsNone(f.price_min) /\ ~IsNone(f.price_max))
                  => FLe(Val(f.price_min), Val(f.price_max))

(* C2, what the code keeps: the sort key is always one of the four, and    *)
(* the bounds are ordered whenever neither of them is NaN.                 *)
C2_ValidUnlessNaN ==
    ~IsNone(filters) =>
        LET f == Val(filters)
        IN /\ f.sort_by \in {RELEVANCE, PRICE_ASC, PRICE_DESC, RATING_DESC}
           /\ (/\ ~IsNone(f.price_min) /\ ~IsNone(f.price_max)
               /\ ~Val(f.price_min).nan /\ ~Val(f.price_max).nan)
                  => Val(f.price_min).v <= Val(f.price_max).v

(* C3: a bound the text gives is the bound of the reconciled Filters: an   *)
(* extracted lower bound L gives price_min = L, an extracted upper bound U *)
(* gives price_max = U, whatever the model supplied.                       *)
C3_LiteralOverrides ==
    ~IsNone(filters) =>
        LET f == Val(filters)
            e == Val(extracted)
        IN /\ ~IsNone(e[1]) => f.price_min = e[1]
           /\ ~IsNone(e[2]) => f.price_max = e[2]

(* C3, what the code keeps: an extracted bound always ends up as one of    *)
(* the two bounds of the reconciled Filters, and as the bound of its own   *)
(* side unless the model's opposite bound contradicts it or the extracted  *)
(* range is a single price.                                                *)
C3_LiteralKept ==
    ~IsNone(filters) =>
        LET f == Val(filters)
            m == Val(modelOut)
            e == Val(extracted)
        IN /\ ~IsNone(e[1]) => e[1] \in {f.price_min, f.price_max}
           /\ ~IsNone(e[2]) => e[2] \in {f.price_min, f.price_max}
           /\ (~IsNone(e[1]) /\ IsNone(e[2])
               /\ (IsNone(m.price_max) \/ FGe(Val(m.price_max), Val(e[1]))))
                  => f.price_min = e[1]
           /\ (~IsNone(e[2]) /\ IsNone(e[1])
               /\ (IsNone(m.price_min) \/ FLe(Val(m.price_min), Val(e[2]))))
                  => f.price_max = e[2]
           /\ (~IsNone(e[1]) /\ ~IsNone(e[2]) /\ e[1] # e[2])
                  => f.price_min = e[1] /\ f.price_max = e[2]

(* C6: a query that is missing, empty, or empty once trimmed is answered   *)
(* with status 400, and no upstream call is issued for it.                 *)
C6_EmptyRejectedBeforeCalls ==
    (IsNone(query) \/ \A i \in DOMAIN Val(query) : Val(query)[i] \in {" ", "\t", "\n"})
        => /\ calls = << >>
           /\ pc \in {"received", "done"}
           /\ pc = "done" => Val(response).status = 400

(* a rejected query of whitespace *)
C6_Witness ==
    /\ pc = "done"
    /\ query = Some(<<" ", "\t">>)
    /\ Val(response).status = 400
    /\ calls = << >>

(* the calls issued so far, against what the request has reached *)
C7_State ==
    /\ calls \in {<< >>, <<"completion">>, <<"completion", "catalog">>}
    /\ calls = <<"completion", "catalog">> =>
           /\ ~IsNone(parseOut) /\ Val(parseOut).kind = "dict"
           /\ ~IsNone(modelOut) /\ ~IsNone(filters)
    /\ (~IsNone(response) /\ Val(response).status # 200) => pc = "done"
    /\ (~IsNone(response) /\ Val(response).status = 502) => calls = <<"completion">>
    /\ (~IsNone(response) /\ Val(response).error \in
            {"JSONDecodeError", "AttributeError", "ValidationError"})
           => calls = <<"completion">>
    /\ (~IsNone(response) /\ Val(response).status = 500 /\ ~IsNone(parseOut)
          /\ Val(parseOut).kind # "dict") => calls = <<"completion">>

(* C7: a request issues at most one completion call and then at most one   *)
(* catalog fetch; the fetch only once the completion's output is parsed    *)
(* and reconciled; once a response is sent, an error above all, no call    *)
(* follows: nothing is retried.                                            *)
C7_OneAttemptInOrder ==
    /\ [](C7_State)
    /\ [][ /\ calls' \in {calls, Append(calls, "completion"), Append(calls, "catalog")}
           /\ ~IsNone(response) => calls' = calls ]_vars

(* a parse failure ended a request after its one completion call *)
C7_Witness ==
    /\ pc = "done"
    /\ ~IsNone(parseOut)
    /\ Val(response).status = 500
    /\ Val(parseOut).kind = "HTTPException"
    /\ calls = <<"completion">>

==========================================================================
